---- MODULE Spec2Model ----
(***************************************************************************)
(* Model of configurator.py: the gear data model, the geometry helpers,    *)
(* the circle-overlap predicate and the GearTrain operations.              *)
(*                                                                         *)
(* Lengths are millimetres, modelled as integers (the gear kinds below     *)
(* have even pitch diameters, so "/ 2.0" is exact).  Angles are degrees,   *)
(* restricted to multiples of 90 where cos and sin are -1, 0 or 1.         *)
(* Python sequences are 0-based, the sequences here are 1-based: gear i    *)
(* of the source is gears[i+1] here.                                       *)
(*                                                                         *)
(* Two independent parts of the program are modelled side by side:         *)
(*  - the execution of the module's four @dataclass declarations           *)
(*    (modpc, importError), and                                            *)
(*  - the bodies of the methods and functions as they are written,         *)
(*    acting on Gear objects (heap) and on one GearTrain (gears,           *)
(*    increment_angle).                                                    *)
(* The bodies are modelled whether or not the import succeeds: what they   *)
(* do is what a caller gets once the declarations load.                    *)
(*                                                                         *)
(* Spec is the GearTrain and its gears; SpecUnit is the import and the     *)
(* operations of single Gear objects; SpecGeom is the collision predicate. *)
(***************************************************************************)
EXTENDS Integers, Sequences, FiniteSets, TLC

VARIABLES modpc, importError, heap, gears, increment_angle, placed, last

vars == <<modpc, importError, heap, gears, increment_angle, placed, last>>

(* ------------------------------ bounds -------------------------------- *)

\* Gear objects the caller constructs.
MaxGears == 3
\* Gears added to the train.
MaxTrain == 3

\* <<num_teeth, module_mm>> of the gears the caller constructs, in order
\* (radii 10, 15, 20, as G1, G2, G3 of the tests), repeated from the fourth on.
GearKinds == << <<20, 1>>, <<10, 3>>, <<40, 1>> >>
KindOf(id) == GearKinds[((id - 1) % Len(GearKinds)) + 1]
\* Arguments of set_center and of the constructor's position keyword.
Points == {<<0, 0>>, <<19, 0>>}
\* start_pos arguments.
StartPoints == {<<0, 0>>}
\* start_angle_deg arguments.
StartAngles == {0, 90}
\* GearTrain(increment_angle=...) values; 180 is the default.
IncrementAngles == {180}
\* clearance_mm arguments.
Clearances == {0, 2}
\* Arguments of circles_overlap: centers and radii.
OverlapPoints == {<<0, 0>>, <<20, 0>>, <<11, 0>>, <<6, 8>>, <<7, 7>>}
OverlapRadii == {5, 10}
\* Keyword under which the caller passes the position to Gear(...).
Keywords == {"none", "center", "ceneter"}
\* Attribute names the callers read a gear's position under.
PositionAttrs == {"center", "ceneter"}

(* ----------------------- dataclass declarations ------------------------ *)

\* The fields of each @dataclass in declaration order: TRUE for a field
\* declared with a default value.
Declarations ==
  << [name |-> "MovementParameters", defaults |-> <<FALSE, FALSE, TRUE, TRUE, TRUE>>],
     [name |-> "Gear", defaults |-> <<FALSE, FALSE, FALSE, TRUE, TRUE, TRUE>>],
     [name |-> "Arbor", defaults |-> <<FALSE, TRUE, FALSE>>],
     [name |-> "GearTrain", defaults |-> <<TRUE, TRUE>>] >>

\* @dataclass builds __init__ from the fields in order and raises TypeError
\* ("non-default argument follows default argument") otherwise.
DataclassAccepts(defaults) ==
  \A i, j \in 1..Len(defaults) : (i < j /\ defaults[i]) => defaults[j]

(* ------------------------------- Gear ---------------------------------- *)

Abs(n) == IF n < 0 THEN -n ELSE n

\* Gear.__init__: thickness_mm is in tenths of a millimetre (0.9 mm).
NewGearObject(id, kind, c) ==
  [name |-> id, num_teeth |-> kind[1], module_mm |-> kind[2],
   thickness_mm |-> 9, ceneter |-> c, angle_deg |-> 0]

\* The constructor's keyword parameters are the dataclass field names.
GearInitKeywords == {"name", "num_teeth", "module_mm", "thickness_mm",
                     "ceneter", "angle_deg"}

PitchDiameter(g) == g.num_teeth * g.module_mm

Radius(g) == PitchDiameter(g) \div 2

BoundingCircle(g) == <<g.ceneter, Radius(g)>>

SetCenter(g, x, y) == [g EXCEPT !.ceneter = <<x, y>>]

\* Attribute read gear.<attr>: AttributeError for a name the object lacks.
GetAttr(g, attr) ==
  IF attr \in DOMAIN g
  THEN [exc |-> "none", val |-> g[attr]]
  ELSE [exc |-> "AttributeError", val |-> <<0, 0>>]

(* -------------------------- geometry helpers --------------------------- *)

CosDeg(a) == CASE a % 360 = 0 -> 1
               [] a % 360 = 90 -> 0
               [] a % 360 = 180 -> -1
               [] a % 360 = 270 -> 0

SinDeg(a) == CASE a % 360 = 0 -> 0
               [] a % 360 = 90 -> 1
               [] a % 360 = 180 -> 0
               [] a % 360 = 270 -> -1

ComputeCenterDistance(g1, g2) == (PitchDiameter(g1) + PitchDiameter(g2)) \div 2

\* A variant of place_second_gear that starts from the center of the gear
\* being placed instead of its predecessor's.
PlaceFromOwnCenter(g1, g2, angle_deg) ==
  LET center_distance == ComputeCenterDistance(g1, g2)
  IN <<g2.ceneter[1] + center_distance * CosDeg(angle_deg),
       g2.ceneter[2] + center_distance * SinDeg(angle_deg)>>

PlaceSecondGear(g1, g2, angle_deg) ==
  LET center_distance == ComputeCenterDistance(g1, g2)
  IN <<g1.ceneter[1] + center_distance * CosDeg(angle_deg),
       g1.ceneter[2] + center_distance * SinDeg(angle_deg)>>

(* ------------------------- collision predicate ------------------------- *)

\* math.hypot, as the integer part of the distance.  The right-hand side
\* of the comparison in circles_overlap is an integer s here, and for an
\* integer s the distance is below s exactly when its integer part is.
Hypot(dx, dy) ==
  LET n == dx * dx + dy * dy
  IN CHOOSE q \in 0..(Abs(dx) + Abs(dy)) : q * q <= n /\ n < (q + 1) * (q + 1)

\* A variant of circles_overlap that counts tangent circles as overlapping.
CirclesOverlapOrTouch(center1, radius1, center2, radius2, clearance) ==
  LET dx == center1[1] - center2[1]
      dy == center1[2] - center2[2]
  IN dx * dx + dy * dy <= (radius1 + radius2 + clearance)
                            * (radius1 + radius2 + clearance)

CirclesOverlap(center1, radius1, center2, radius2, clearance) ==
  LET dx == center1[1] - center2[1]
      dy == center1[2] - center2[2]
      distance == Hypot(dx, dy)
  IN distance < radius1 + radius2 + clearance

(* ------------------------------ GearTrain ------------------------------ *)

\* A variant of add_gear that inserts at the front.
AddGearFirst(gs, id) == <<id>> \o gs

AddGear(gs, id) == Append(gs, id)

\* The body of the placement loop for index i (1-based: gs[i+1]).  The
\* statement "current_angle += increment_angle" names a variable that is
\* neither a local of the method nor a global of the module, so the first
\* iteration raises NameError after it has placed its gear.
ChainLoop(hp, gs, i, current_angle) ==
  IF i >= Len(gs)
  THEN [heap |-> hp, exc |-> "none"]
  ELSE LET prev_gear == hp[gs[i]]
           curr_gear == hp[gs[i + 1]]
           new_center == PlaceSecondGear(prev_gear, curr_gear, current_angle)
       IN [heap |-> [hp EXCEPT ![gs[i + 1]] = SetCenter(@, new_center[1], new_center[2])],
           exc |-> "NameError"]

\* A variant of the placement without the test for an empty train: the
\* access to gears[0] raises IndexError.
ComputeCentersUnguarded(hp, gs, start_pos, start_angle_deg) ==
  IF gs = <<>>
  THEN [heap |-> hp, exc |-> "IndexError"]
  ELSE ChainLoop([hp EXCEPT ![gs[1]] = SetCenter(@, start_pos[1], start_pos[2])],
                 gs, 1, start_angle_deg)

ComputeCentersLinearChain(hp, gs, start_pos, start_angle_deg) ==
  IF gs = <<>>
  THEN [heap |-> hp, exc |-> "none"]
  ELSE ChainLoop([hp EXCEPT ![gs[1]] = SetCenter(@, start_pos[1], start_pos[2])],
                 gs, 1, start_angle_deg)

\* The index pairs (i, j), i < j, in the order the two nested loops visit them.
RECURSIVE LoopPairs(_, _, _)
LoopPairs(i, j, n) ==
  IF i > n THEN <<>>
  ELSE IF j > n THEN LoopPairs(i + 1, i + 2, n)
  ELSE <<(<<i, j>>)>> \o LoopPairs(i, j + 1, n)

CheckCollisions(hp, gs, clearance_mm) ==
  LET Hit(p) == CirclesOverlap(hp[gs[p[1]]].ceneter, Radius(hp[gs[p[1]]]),
                               hp[gs[p[2]]].ceneter, Radius(hp[gs[p[2]]]),
                               clearance_mm)
      hits == SelectSeq(LoopPairs(1, 2, Len(gs)), Hit)
  IN [k \in 1..Len(hits) |-> <<gs[hits[k][1]], gs[hits[k][2]]>>]

(* ------------------------------- state --------------------------------- *)

\* The record of the last call: the operation, its arguments, the exception
\* it raised ("none" if it returned) and what it returned.
\*   id      the gear the call is about (0 if none)
\*   pt      the position argument (center, start_pos, center1)
\*   num     the numeric argument (start_angle_deg, clearance)
\*   kw      the keyword or attribute name used
\*   again   compute_centers_linear_chain only: the call repeats the
\*           arguments of the previous placement, the gears untouched since
\*   ret     check_collisions: the list of pairs returned
\*   val,rad the position and radius returned (or center2, radius1)
\*   rad2,ok circles_overlap: radius2 and the result
NoCall == [op |-> "none", exc |-> "none", id |-> 0, pt |-> <<0, 0>>, num |-> 0,
           kw |-> "none", again |-> FALSE, ret |-> <<>>,
           val |-> <<0, 0>>, rad |-> 0, rad2 |-> 0, ok |-> FALSE]

Init ==
  /\ modpc = 1
  /\ importError = "none"
  /\ heap = <<>>
  /\ gears = <<>>
  /\ increment_angle \in IncrementAngles
  /\ placed = <<>>
  /\ last = NoCall

(* ------------------------------ actions -------------------------------- *)

\* The interpreter executes the next @dataclass declaration of the module.
DeclareNext ==
  /\ importError = "none"
  /\ modpc <= Len(Declarations)
  /\ \/ /\ DataclassAccepts(Declarations[modpc].defaults)
        /\ modpc' = modpc + 1
        /\ UNCHANGED importError
     \/ /\ ~DataclassAccepts(Declarations[modpc].defaults)
        /\ importError' = "TypeError"
        /\ UNCHANGED modpc
  /\ UNCHANGED <<heap, gears, increment_angle, placed, last>>

\* Gear(name, num_teeth, module_mm[, <kw>=c])
NewGear(kw, c) ==
  /\ Len(heap) < MaxGears
  /\ IF kw = "none" \/ kw \in GearInitKeywords
     THEN /\ heap' = Append(heap, NewGearObject(Len(heap) + 1, KindOf(Len(heap) + 1),
                                   IF kw = "none" THEN <<0, 0>> ELSE c))
          /\ last' = [NoCall EXCEPT !.op = "Gear", !.kw = kw, !.pt = c,
                                    !.id = Len(heap) + 1]
     ELSE /\ heap' = heap
          /\ last' = [NoCall EXCEPT !.op = "Gear", !.kw = kw, !.pt = c,
                                    !.exc = "TypeError"]
  /\ UNCHANGED <<modpc, importError, gears, increment_angle, placed>>

\* gear.set_center(x, y)
DoSetCenter(id, p) ==
  /\ id \in 1..Len(heap)
  /\ heap' = [heap EXCEPT ![id] = SetCenter(@, p[1], p[2])]
  /\ last' = [NoCall EXCEPT !.op = "set_center", !.id = id, !.pt = p]
  /\ placed' = <<>>
  /\ UNCHANGED <<modpc, importError, gears, increment_angle>>

\* gear.<attr>, the read of the position attribute
DoGetAttr(id, attr) ==
  /\ id \in 1..Len(heap)
  /\ LET r == GetAttr(heap[id], attr)
     IN last' = [NoCall EXCEPT !.op = "getattr", !.id = id, !.kw = attr,
                               !.exc = r.exc, !.val = r.val]
  /\ UNCHANGED <<modpc, importError, heap, gears, increment_angle, placed>>

\* gear.bounding_circle()
DoBoundingCircle(id) ==
  /\ id \in 1..Len(heap)
  /\ LET r == BoundingCircle(heap[id])
     IN last' = [NoCall EXCEPT !.op = "bounding_circle", !.id = id,
                               !.val = r[1], !.rad = r[2]]
  /\ UNCHANGED <<modpc, importError, heap, gears, increment_angle, placed>>

\* circles_overlap(center1, radius1, center2, radius2, clearance)
DoCirclesOverlap(center1, radius1, center2, radius2, clearance) ==
  /\ last' = [NoCall EXCEPT !.op = "circles_overlap", !.pt = center1,
                            !.rad = radius1, !.val = center2, !.rad2 = radius2,
                            !.num = clearance,
                            !.ok = CirclesOverlap(center1, radius1, center2,
                                                  radius2, clearance)]
  /\ UNCHANGED <<modpc, importError, heap, gears, increment_angle, placed>>

\* train.add_gear(gear)
DoAddGear(id) ==
  /\ id \in 1..Len(heap)
  /\ Len(gears) < MaxTrain
  /\ gears' = AddGear(gears, id)
  /\ last' = [NoCall EXCEPT !.op = "add_gear", !.id = id]
  /\ placed' = <<>>
  /\ UNCHANGED <<modpc, importError, heap, increment_angle>>

\* train.compute_centers_linear_chain(start_pos, start_angle_deg)
DoComputeCenters(start_pos, start_angle_deg) ==
  /\ LET r == ComputeCentersLinearChain(heap, gears, start_pos, start_angle_deg)
     IN /\ heap' = r.heap
        /\ last' = [NoCall EXCEPT !.op = "compute_centers", !.pt = start_pos,
                                  !.num = start_angle_deg, !.exc = r.exc,
                                  !.again = (placed = <<start_pos, start_angle_deg>>)]
  /\ placed' = <<start_pos, start_angle_deg>>
  /\ UNCHANGED <<modpc, importError, gears, increment_angle>>

\* train.check_collisions(clearance_mm)
DoCheckCollisions(clearance_mm) ==
  /\ last' = [NoCall EXCEPT !.op = "check_collisions", !.num = clearance_mm,
                            !.ret = CheckCollisions(heap, gears, clearance_mm)]
  /\ UNCHANGED <<modpc, importError, heap, gears, increment_angle, placed>>

\* The operations of a GearTrain and of the gears it holds.
Next ==
  \/ NewGear("none", <<0, 0>>)
  \/ \E id \in 1..MaxGears, p \in Points : DoSetCenter(id, p)
  \/ \E id \in 1..MaxGears : DoAddGear(id)
  \/ \E s \in StartPoints, a \in StartAngles : DoComputeCenters(s, a)
  \/ \E c \in Clearances : DoCheckCollisions(c)

Spec == Init /\ [][Next]_vars

\* The import of the module and the operations of single Gear objects.
NextUnit ==
  \/ DeclareNext
  \/ \E kw \in Keywords, c \in Points : NewGear(kw, c)
  \/ \E id \in 1..MaxGears, p \in Points : DoSetCenter(id, p)
  \/ \E id \in 1..MaxGears, attr \in PositionAttrs : DoGetAttr(id, attr)
  \/ \E id \in 1..MaxGears : DoBoundingCircle(id)

SpecUnit == Init /\ [][NextUnit]_vars

\* The collision predicate on its own, applied to every input of the bounds.
NextGeom ==
  \E c1, c2 \in OverlapPoints, r1, r2 \in OverlapRadii, cl \in Clearances :
    DoCirclesOverlap(c1, r1, c2, r2, cl)

SpecGeom == Init /\ [][NextGeom]_vars

(* ------------------------------ claims --------------------------------- *)

\* The squared Euclidean distance between two positions.
SqDist(p, q) == (p[1] - q[1]) * (p[1] - q[1]) + (p[2] - q[2]) * (p[2] - q[2])

\* The train holds no gear twice.
NoGearTwice == \A i, j \in 1..Len(gears) : gears[i] = gears[j] => i = j

\* Gears g1 and g2 overlap with the clearance: distance < r1 + r2 + clearance.
Overlapping(g1, g2, clearance) ==
  LET s == Radius(g1) + Radius(g2) + clearance
  IN s > 0 /\ SqDist(g1.ceneter, g2.ceneter) < s * s

\* The adjacent pairs of the train that overlap, in index order.
AdjacentCollisions(clearance) ==
  LET Hit(i) == Overlapping(heap[gears[i]], heap[gears[i + 1]], clearance)
      RECURSIVE From(_)
      From(i) == IF i >= Len(gears) THEN <<>>
                 ELSE (IF Hit(i) THEN <<(<<gears[i], gears[i + 1]>>)>> ELSE <<>>)
                      \o From(i + 1)
  IN From(1)

\* C1: check_collisions returns exactly the overlapping adjacent pairs
\* (i, i+1), in index order, and no pair of gears further apart in the train.
C1_AdjacentPairsOnly ==
  (last.op = "check_collisions" /\ NoGearTwice)
    => last.ret = AdjacentCollisions(last.num)

\* The center the chain placement is specified to give gear i (1-based) of
\* the train: start_pos for the first, and for the others the meshing
\* distance from the predecessor's center in the direction
\* start_angle_deg + (i - 2) * increment_angle.
RECURSIVE ChainCenter(_, _, _)
ChainCenter(i, start_pos, start_angle_deg) ==
  IF i = 1 THEN start_pos
  ELSE LET prev == ChainCenter(i - 1, start_pos, start_angle_deg)
           d == Radius(heap[gears[i - 1]]) + Radius(heap[gears[i]])
           a == start_angle_deg + (i - 2) * increment_angle
       IN <<prev[1] + d * CosDeg(a), prev[2] + d * SinDeg(a)>>

\* C2: on a non-empty train compute_centers_linear_chain returns normally
\* and leaves every gear at its place in the chain.
C2_ChainPlacesEveryGear ==
  (last.op = "compute_centers" /\ gears # <<>> /\ NoGearTwice)
    => /\ last.exc = "none"
       /\ \A i \in 1..Len(gears) :
            heap[gears[i]].ceneter = ChainCenter(i, last.pt, last.num)

\* C3: a second compute_centers_linear_chain with the arguments of the one
\* before it, the gears untouched in between, changes no gear.
C3_ChainIdempotent ==
  [][(placed # <<>> /\ last'.op = "compute_centers"
        /\ <<last'.pt, last'.num>> = placed)
      => heap' = heap]_vars

\* C3 witness: a placement of two or more gears has been repeated.
C3_Witness ==
  last.op = "compute_centers" /\ last.again /\ Len(gears) >= 2

\* C4: circles_overlap is TRUE exactly when the distance of the centers is
\* strictly below radius1 + radius2 + clearance, and swapping the two
\* circles gives the same result.
C4_StrictOverlap ==
  last.op = "circles_overlap"
    => LET s == last.rad + last.rad2 + last.num
       IN /\ last.ok = (SqDist(last.pt, last.val) < s * s)
          /\ last.ok = CirclesOverlap(last.val, last.rad2, last.pt, last.rad,
                                      last.num)

\* C4 witness: two circles exactly tangent, off the axes, found not to overlap.
C4_Witness ==
  /\ last.op = "circles_overlap"
  /\ last.pt[2] # last.val[2]
  /\ SqDist(last.pt, last.val) = (last.rad + last.rad2) * (last.rad + last.rad2)
  /\ last.num = 0
  /\ ~last.ok

\* C5: the position of a Gear is its attribute center: the constructor takes
\* it under that name, set_center(x, y) makes it (x, y), and bounding_circle
\* returns it with the radius.
C5_CenterAttribute ==
  /\ (last.op = "Gear" /\ last.kw = "center")
       => /\ last.exc = "none"
          /\ GetAttr(heap[last.id], "center") = [exc |-> "none", val |-> last.pt]
  /\ last.op = "set_center"
       => GetAttr(heap[last.id], "center") = [exc |-> "none", val |-> last.pt]
  /\ last.op = "bounding_circle"
       => /\ GetAttr(heap[last.id], "center") = [exc |-> "none", val |-> last.val]
          /\ last.rad = Radius(heap[last.id])

\* C6: a train of three gears placed by compute_centers_linear_chain with
\* the increment of 180 degrees has no collision at clearance 0.
C6_PlacedChainHasNoCollision ==
  (last.op = "check_collisions" /\ last.num = 0 /\ placed # <<>>
     /\ Len(gears) = 3 /\ NoGearTwice /\ increment_angle = 180)
    => last.ret = <<>>

\* C7: compute_centers_linear_chain on a train without gears returns
\* normally and changes nothing.
C7_EmptyTrainNoOp ==
  [][(gears = <<>> /\ last'.op = "compute_centers")
      => /\ last'.exc = "none"
         /\ heap' = heap
         /\ gears' = gears
         /\ increment_angle' = increment_angle]_vars

\* C7 witness: the placement has run on an empty train while gears exist.
C7_Witness ==
  last.op = "compute_centers" /\ gears = <<>> /\ heap # <<>>

\* Positions a, b, c are on one line, b strictly between a and c.
Between(a, b, c) ==
  /\ (b[1] - a[1]) * (c[2] - a[2]) = (b[2] - a[2]) * (c[1] - a[1])
  /\ (a[1] - b[1]) * (c[1] - b[1]) + (a[2] - b[2]) * (c[2] - b[2]) < 0

C9_FrameConditions ==
  [][/\ last'.op = "check_collisions"
          => heap' = heap /\ gears' = gears /\ increment_angle' = increment_angle
     /\ last'.op = "compute_centers"
          => /\ gears' = gears
             /\ increment_angle' = increment_angle
             /\ Len(heap') = Len(heap)
             /\ \A id \in 1..Len(heap) :
                  heap'[id] = [heap[id] EXCEPT !.ceneter = heap'[id].ceneter]
     /\ last'.op = "add_gear"
          => /\ gears' = Append(gears, last'.id)
             /\ heap' = heap
             /\ increment_angle' = increment_angle]_vars

\* C9 witness: gears were added to the train, placed, and checked.
C9_Witness ==
  /\ last.op = "check_collisions"
  /\ placed # <<>>
  /\ Len(gears) >= 2
  /\ NoGearTwice
  /\ last.ret # <<>>

\* C10: the declarations of the data model raise no error.
C10_DeclarationsSucceed == importError = "none"

====
